---- MODULE Spec2Model ----
(***************************************************************************)
(* Model of the PBS batch-dispatch script (src/unnamed/part_000): the      *)
(* top-level shell loop that picks a hardcoded parameter list per node,    *)
(* launches one `parallel` sub-dispatcher per node through pbsdsh in the   *)
(* background, and finally waits for all of them; and of the shell loop    *)
(* that splits NetCDF inputs into one file per time step                   *)
(* (src/Real_world_examples/Mining_rehabilitation.ipynb).                  *)
(***************************************************************************)
EXTENDS Integers, FiniteSets, Sequences, TLC

\* ---- program constants ----
TotalCpus == 64          \* #PBS -l ncpus=64
NCPUS     == 32          \* NCPUS=32
Retries   == 3           \* parallel --retries 3
LoadPct   == 100         \* parallel --load 100%
Delay     == 5           \* parallel --delay 5

\* ---- bounds of the exploration ----
MaxNodes == 3            \* NNODES ranges over 1..MaxNodes
MaxUnits == 2            \* arguments of a list that are dispatched, and that end
MaxFails == 3            \* failing attempts in one run of the job
MaxTime  == 7            \* time that passes on a node apart from the delays
MaxFiles == 2            \* input files of the split loop
MaxSteps == 2            \* time steps of one input file
MaxStamp == 3            \* distinct non-empty timestamps

Nodes == 0 .. (MaxNodes - 1)

VARIABLES
    NNODES,      \* number of distinct hosts in $PBS_NODEFILE
    pc,          \* position of the top-level script: "loop", "wait", "exit"
    i,           \* loop variable of the for loop
    PARAMF,      \* PARAMF[n]: brace range baked into the command of iteration n
    sub,         \* sub[n]: state of the background pbsdsh job of iteration n
    st,          \* st[n][k]: state of the k-th argument of node n's parallel
    att,         \* att[n][k]: invocation attempts started for that argument
    fails,       \* fails[n][k]: attempts of that argument that failed
    load,        \* load[n]: load parallel observes on node n
    horizon,     \* horizon[n]: arguments of node n's list that are dispatched
    clock,       \* clock[n]: time on node n since its parallel began
    lastStart,   \* lastStart[n]: time parallel last started a job, -1 if none
    exitStatus,  \* exit status of the script, -1 while it has not exited
    nfiles,      \* split loop: number of input files the glob matches
    sfile,       \* split loop: inputs split so far
    spc,         \* split loop: "next" (outer loop), "rename" (inner), "done"
    splitDir,    \* splitDir[k]: time step held by split_00000k.nc, or NoFile
    todo,        \* names the inner loop still has to visit (0: the pattern)
    out,         \* out[t]: time step held by Tair_<t>.nc, or NoFile
    moved,       \* time steps that were renamed
    seen,        \* timestamps read so far (0: the empty string)
    dup          \* a timestamp was read that had been read before

tvars == <<clock, lastStart>>

svars == <<nfiles, sfile, spc, splitDir, todo, out, moved, seen, dup>>

vars == <<NNODES, pc, i, PARAMF, sub, st, att, fails, load, horizon,
          exitStatus, tvars, svars>>

\* ---- pure helpers ----

\* "{lo..hi}" as bash brace expansion expands it in the inner shell
Expand(p) == p.lo .. p.hi

NoParam == [lo |-> 1, hi |-> 0]

\* the loop body with -le in place of -lt
ParamForLe(n) == IF n <= 1 THEN [lo |-> 1, hi |-> 32] ELSE [lo |-> 33, hi |-> 64]

\* the if/else of the loop body
ParamFor(n) == IF n < 1 THEN [lo |-> 1, hi |-> 32] ELSE [lo |-> 33, hi |-> 64]

\* pbsdsh -n $i: the loop index taken as the slot
SlotUnscaled(n) == n

\* pbsdsh -n $(( $NCPUS*$i ))
Slot(n) == NCPUS * n

\* the host of a slot, with NCPUS slots on each host
HostOf(s) == s \div NCPUS

\* slots of the job are 0 .. ncpus-1
SlotValid(s) == s >= 0 /\ s < TotalCpus

\* --load 100%: the limit is that percentage of the cores of the host
LoadLimit == (LoadPct * NCPUS) \div 100

LoadLevels == {LoadLimit - 1, LoadLimit, LoadLimit + 1}

\* parallel run without --load
LoadIgnored(n) == TRUE

\* parallel starts nothing unless the observed load is below the limit
LoadOK(n) == load[n] < LoadLimit

\* parallel run without --delay
StartTimeNoDelay(n) == clock[n]

\* --delay 5: parallel sleeps until 5 after its newest start, then starts
StartTime(n) ==
    IF lastStart[n] >= 0 /\ clock[n] < lastStart[n] + Delay
    THEN lastStart[n] + Delay
    ELSE clock[n]

\* default job slots of parallel: one per core of the host
JobSlots == NCPUS

\* length of the argument list of node n
ListLen(n) == PARAMF[n].hi - PARAMF[n].lo + 1

\* arguments of node n that its parallel dispatches
Args(n) == 1 .. (IF ListLen(n) < horizon[n] THEN ListLen(n) ELSE horizon[n])

\* parameter value of the k-th argument of node n
Value(n, k) == PARAMF[n].lo + k - 1

Running(n) == {k \in Args(n) : st[n][k] = "running"}

Terminal(n, k) == st[n][k] \in {"ok", "failed"}

\* a retry count taken as retries after the first attempt
ShouldRetryAfterFirst(f) == f <= Retries

\* a retry count that gives up one failure early
ShouldRetryEarly(f) == f < Retries - 1

\* --retries 3: a failed job is run again until it has failed 3 times
ShouldRetry(f) == f < Retries

\* parallel run with --halt now,fail=1: the other jobs are killed
OnExhaustedHalt(s, k) ==
    [j \in DOMAIN s |->
        IF j = k THEN "failed"
        ELSE IF s[j] \in {"ok", "failed"} THEN s[j] ELSE "killed"]

\* no --halt option: a job that exhausts its retries leaves the others alone
OnExhausted(s, k) == [s EXCEPT ![k] = "failed"]

\* the job parallel takes next: a job put back for retry, else the next
\* argument of the list in order
NextJobs(n) ==
    LET retry == {k \in Args(n) : st[n][k] = "retry"}
        queued == {k \in Args(n) : st[n][k] = "queued"}
    IN  IF retry # {} THEN retry
        ELSE {k \in queued : \A j \in queued : k <= j}

\* `wait` without operands returns 0 whatever the children returned
WaitStatus == 0

\* `wait $!`: only the job launched last is waited for
LastChildGone == i = 0 \/ sub[i - 1] \in {"none", "nostart", "done"}

\* `wait` without operands returns when no background job is left
ChildrenGone == \A n \in Nodes : sub[n] \in {"none", "nostart", "done"}

\* failing attempts so far, over all nodes
RECURSIVE SumTo(_, _)
SumTo(f, k) == IF k = 0 THEN 0 ELSE f[k] + SumTo(f, k - 1)

RECURSIVE SumNodes(_, _)
SumNodes(f, n) == IF n < 0 THEN 0 ELSE SumTo(f[n], MaxUnits) + SumNodes(f, n - 1)

TotalFails == SumNodes(fails, MaxNodes - 1)

\* ---- split loop helpers ----

\* timestamps `cdo showtimestamp | tr -d '[:space:]'` yields; 0 is the empty
\* string it yields when cdo fails
Stamps == 0 .. MaxStamp

NoFile == <<0, 0>>

\* cdo -splitsel,1 $ncfile split_: one split_00000k.nc per time step
SplitSel(dir, f, n) == [k \in DOMAIN dir |-> IF k <= n THEN <<f, k>> ELSE dir[k]]

RECURSIVE Sorted(_, _)
Sorted(S, k) ==
    IF k > MaxSteps THEN <<>>
    ELSE (IF k \in S THEN <<k>> ELSE <<>>) \o Sorted(S, k + 1)

\* split_*.nc: the matching names in order, or the pattern itself
Glob(dir) ==
    LET names == {k \in DOMAIN dir : dir[k] # NoFile}
    IN  IF names = {} THEN <<0>> ELSE Sorted(names, 1)

\* mv -n: an existing target is kept
MvNoClobber(o, t, id) == IF o[t] = NoFile THEN [o EXCEPT ![t] = id] ELSE o

\* mv $f Tair_$mytime.nc: an existing target is replaced
Mv(o, t, id) == [o EXCEPT ![t] = id]

\* ---- initial states ----

\* the split loop before it runs, in an empty working directory
SplitCommon ==
    /\ sfile = 0
    /\ spc = "next"
    /\ splitDir = [k \in 1 .. MaxSteps |-> NoFile]
    /\ todo = <<>>
    /\ out = [t \in Stamps |-> NoFile]
    /\ moved = {}
    /\ seen = {}
    /\ dup = FALSE

InitCommon ==
    /\ pc = "loop"
    /\ i = 0
    /\ PARAMF = [n \in Nodes |-> NoParam]
    /\ sub = [n \in Nodes |-> "none"]
    /\ st = [n \in Nodes |-> [k \in 1 .. NCPUS |-> "queued"]]
    /\ att = [n \in Nodes |-> [k \in 1 .. NCPUS |-> 0]]
    /\ fails = [n \in Nodes |-> [k \in 1 .. NCPUS |-> 0]]
    /\ load = [n \in Nodes |-> LoadLimit - 1]
    /\ clock = [n \in Nodes |-> 0]
    /\ lastStart = [n \in Nodes |-> -1]
    /\ exitStatus = -1

Init ==
    /\ NNODES \in 1 .. MaxNodes
    /\ horizon = [n \in Nodes |-> MaxUnits]
    /\ InitCommon
    /\ nfiles = 0
    /\ SplitCommon

\* ---- top-level script ----

\* one iteration of the for loop: choose PARAMF, launch pbsdsh in background;
\* pbsdsh refuses a slot number that is not one of the job's
Dispatch ==
    /\ pc = "loop"
    /\ i < NNODES
    /\ PARAMF' = [PARAMF EXCEPT ![i] = ParamFor(i)]
    /\ sub' = [sub EXCEPT ![i] = IF SlotValid(Slot(i)) THEN "spawned" ELSE "nostart"]
    /\ i' = i + 1
    /\ pc' = IF i + 1 < NNODES THEN "loop" ELSE "wait"
    /\ UNCHANGED <<NNODES, st, att, fails, load, horizon, exitStatus>>
    /\ UNCHANGED tvars
    /\ UNCHANGED svars

\* pbsdsh reaches its slot and the remote bash runs parallel
PbsdshStart(n) ==
    /\ sub[n] = "spawned"
    /\ SlotValid(Slot(n))
    /\ sub' = [sub EXCEPT ![n] = "running"]
    /\ UNCHANGED <<NNODES, pc, i, PARAMF, st, att, fails, load, horizon,
                   exitStatus>>
    /\ UNCHANGED tvars
    /\ UNCHANGED svars

\* pbsdsh cannot start the remote command (unreachable host, failed login
\* shell); a slot outside the job is refused at once, in Dispatch
PbsdshFail(n) ==
    /\ sub[n] = "spawned"
    /\ sub' = [sub EXCEPT ![n] = "nostart"]
    /\ UNCHANGED <<NNODES, pc, i, PARAMF, st, att, fails, load, horizon,
                   exitStatus>>
    /\ UNCHANGED tvars
    /\ UNCHANGED svars

\* the final `wait`, after which the script ends
Wait ==
    /\ pc = "wait"
    /\ ChildrenGone
    /\ pc' = "exit"
    /\ exitStatus' = WaitStatus
    /\ UNCHANGED <<NNODES, i, PARAMF, sub, st, att, fails, load, horizon>>
    /\ UNCHANGED tvars
    /\ UNCHANGED svars

\* ---- per-node parallel ----

\* parallel starts an attempt of its next job
StartUnit(n) ==
    /\ sub[n] = "running"
    /\ Cardinality(Running(n)) < JobSlots
    /\ LoadOK(n)
    /\ \E k \in NextJobs(n) :
          /\ st' = [st EXCEPT ![n][k] = "running"]
          /\ att' = [att EXCEPT ![n][k] = @ + 1]
    /\ clock' = [clock EXCEPT ![n] = StartTime(n)]
    /\ lastStart' = [lastStart EXCEPT ![n] = StartTime(n)]
    /\ UNCHANGED <<NNODES, pc, i, PARAMF, sub, fails, load, horizon,
                   exitStatus>>
    /\ UNCHANGED svars

\* an attempt exits 0
UnitSucceeds(n, k) ==
    /\ sub[n] = "running"
    /\ k \in Running(n)
    /\ k <= MaxUnits
    /\ st' = [st EXCEPT ![n][k] = "ok"]
    /\ UNCHANGED <<NNODES, pc, i, PARAMF, sub, att, fails, load, horizon,
                   exitStatus>>
    /\ UNCHANGED tvars
    /\ UNCHANGED svars

\* an attempt exits non-zero: back to the queue, or given up
UnitFails(n, k) ==
    /\ sub[n] = "running"
    /\ k \in Running(n)
    /\ k <= MaxUnits
    /\ TotalFails < MaxFails
    /\ fails' = [fails EXCEPT ![n][k] = @ + 1]
    /\ st' = IF ShouldRetry(fails[n][k] + 1)
             THEN [st EXCEPT ![n][k] = "retry"]
             ELSE [st EXCEPT ![n] = OnExhausted(st[n], k)]
    /\ UNCHANGED <<NNODES, pc, i, PARAMF, sub, att, load, horizon,
                   exitStatus>>
    /\ UNCHANGED tvars
    /\ UNCHANGED svars

\* the load parallel observes on the host, while it has a job to start
LoadChange(n) ==
    /\ sub[n] = "running"
    /\ NextJobs(n) # {}
    /\ \E l \in LoadLevels :
          /\ l # load[n]
          /\ load' = [load EXCEPT ![n] = l]
    /\ UNCHANGED <<NNODES, pc, i, PARAMF, sub, st, att, fails, horizon,
                   exitStatus>>
    /\ UNCHANGED tvars
    /\ UNCHANGED svars

\* time passes on the node while its parallel runs
Tick(n) ==
    /\ sub[n] = "running"
    /\ clock[n] < MaxTime
    /\ clock' = [clock EXCEPT ![n] = @ + 1]
    /\ UNCHANGED <<NNODES, pc, i, PARAMF, sub, st, att, fails, load, horizon,
                   exitStatus, lastStart>>
    /\ UNCHANGED svars

\* parallel exits once every job is finished; pbsdsh returns
SubDone(n) ==
    /\ sub[n] = "running"
    /\ \A k \in Args(n) : Terminal(n, k)
    /\ sub' = [sub EXCEPT ![n] = "done"]
    /\ UNCHANGED <<NNODES, pc, i, PARAMF, st, att, fails, load, horizon,
                   exitStatus>>
    /\ UNCHANGED tvars
    /\ UNCHANGED svars

Next ==
    \/ Dispatch
    \/ Wait
    \/ \E n \in Nodes : PbsdshStart(n)
    \/ \E n \in Nodes : PbsdshFail(n)
    \/ \E n \in Nodes : StartUnit(n)
    \/ \E n \in Nodes : \E k \in 1 .. MaxUnits : UnitSucceeds(n, k)
    \/ \E n \in Nodes : \E k \in 1 .. MaxUnits : UnitFails(n, k)
    \/ \E n \in Nodes : SubDone(n)

\* the job on hosts whose load stays below the limit
Spec == Init /\ [][Next]_vars

\* the job on one host
InitLoad ==
    /\ NNODES = 1
    /\ horizon = [n \in Nodes |-> MaxUnits]
    /\ InitCommon
    /\ nfiles = 0
    /\ SplitCommon

\* with an observed load that varies
NextLoad ==
    \/ Next
    \/ \E n \in Nodes : LoadChange(n)

SpecLoad == InitLoad /\ [][NextLoad]_vars

\* the job on one host, with the passing of time on it
NextDelay ==
    \/ Next
    \/ \E n \in Nodes : Tick(n)

SpecDelay == InitLoad /\ [][NextDelay]_vars

\* the job when node 0 dispatches its whole list, of which the jobs after
\* the first MaxUnits are still running
InitLong ==
    /\ NNODES \in 1 .. MaxNodes
    /\ horizon = [n \in Nodes |-> IF n = 0 THEN NCPUS ELSE MaxUnits]
    /\ InitCommon
    /\ nfiles = 0
    /\ SplitCommon

SpecLong == InitLong /\ [][Next]_vars

\* ---- the split loop ----

dvars == <<NNODES, pc, i, PARAMF, sub, st, att, fails, load, horizon,
           exitStatus, tvars>>

\* outer loop body up to the inner `for`: split the next input into its
\* time steps and expand split_*.nc
SplitFile ==
    /\ spc = "next"
    /\ sfile < nfiles
    /\ \E n \in 0 .. MaxSteps :
          /\ splitDir' = SplitSel(splitDir, sfile + 1, n)
          /\ todo' = Glob(SplitSel(splitDir, sfile + 1, n))
    /\ sfile' = sfile + 1
    /\ spc' = "rename"
    /\ UNCHANGED <<nfiles, out, moved, seen, dup, dvars>>

\* inner loop body: read the timestamp of a split and rename it
RenameSplit ==
    /\ spc = "rename"
    /\ todo # <<>>
    /\ Head(todo) # 0
    /\ splitDir[Head(todo)] # NoFile
    /\ \E t \in Stamps :
          /\ out' = Mv(out, t, splitDir[Head(todo)])
          /\ seen' = seen \cup {t}
          /\ dup' = (dup \/ t \in seen)
    /\ moved' = moved \cup {splitDir[Head(todo)]}
    /\ splitDir' = [splitDir EXCEPT ![Head(todo)] = NoFile]
    /\ todo' = Tail(todo)
    /\ spc' = IF Tail(todo) = <<>> THEN "next" ELSE "rename"
    /\ UNCHANGED <<nfiles, sfile, dvars>>

\* inner loop body when the pattern matched nothing: cdo and mv both fail
RenameMissing ==
    /\ spc = "rename"
    /\ todo # <<>>
    /\ Head(todo) = 0
    /\ todo' = Tail(todo)
    /\ spc' = IF Tail(todo) = <<>> THEN "next" ELSE "rename"
    /\ UNCHANGED <<nfiles, sfile, splitDir, out, moved, seen, dup, dvars>>

\* the outer loop has no input left
SplitEnd ==
    /\ spc = "next"
    /\ sfile = nfiles
    /\ spc' = "done"
    /\ UNCHANGED <<nfiles, sfile, splitDir, todo, out, moved, seen, dup, dvars>>

InitSplit ==
    /\ nfiles \in 1 .. MaxFiles
    /\ SplitCommon
    /\ NNODES = 1
    /\ horizon = [n \in Nodes |-> MaxUnits]
    /\ InitCommon

NextSplit ==
    \/ SplitFile
    \/ RenameSplit
    \/ RenameMissing
    \/ SplitEnd

SpecSplit == InitSplit /\ [][NextSplit]_vars

\* ---- properties ----

\* the declared parameter range
FullRange == 1 .. 64

\* nodes the loop has dispatched to
Dispatched == 0 .. (i - 1)

Ranges == [n \in Dispatched |-> Expand(PARAMF[n])]

Disjoint == \A n, m \in Dispatched : n # m => Ranges[n] \cap Ranges[m] = {}

Covered == UNION {Ranges[n] : n \in Dispatched}

\* C1: once the loop is over, for every node count, the ranges given to
\* nodes 0..NNODES-1 are pairwise disjoint and their union is the declared
\* range 1..64
C1_PartitionExact ==
    pc # "loop" => Disjoint /\ Covered = FullRange

\* C2: with 2 nodes, node 0 is given exactly 1..32 and node 1 exactly
\* 33..64, disjoint, union 1..64, and every attempt started on a node is for
\* a value of that node's range
C2_TwoNodeSplit ==
    (NNODES = 2 /\ pc # "loop") =>
        /\ Ranges[0] = 1 .. 32
        /\ Ranges[1] = 33 .. 64
        /\ Disjoint
        /\ Covered = FullRange
        /\ \A k \in 1 .. MaxUnits :
              /\ att[0][k] > 0 => Value(0, k) \in 1 .. 32
              /\ att[1][k] > 0 => Value(1, k) \in 33 .. 64

C2_Witness ==
    /\ NNODES = 2
    /\ pc = "exit"
    /\ st[0][1] = "ok" /\ Value(0, 1) = 1
    /\ st[1][1] = "ok" /\ Value(1, 1) = 33

\* C3: no work unit is attempted more than 3 times, a unit is permanently
\* failed only after exactly 3 failed attempts, and no attempt is started
\* for a unit that has succeeded or is permanently failed
C3_RetryBudget ==
    /\ [](\A n \in Nodes : \A k \in 1 .. MaxUnits :
            /\ att[n][k] <= 3
            /\ st[n][k] = "failed" => (att[n][k] = 3 /\ fails[n][k] = 3))
    /\ [][\A n \in Nodes : \A k \in 1 .. MaxUnits :
            att'[n][k] # att[n][k] => st[n][k] \in {"queued", "retry"}]_vars

C3_Witness ==
    \E n \in Nodes : \E k \in 1 .. MaxUnits :
        st[n][k] = "failed" /\ att[n][k] = 3

\* C4: a unit that succeeds on attempt k <= 3 is reported success with
\* exactly k attempts (k-1 of them failed), and a unit that has failed fewer
\* than 3 times is never given up, so that a third attempt can succeed
C4_SuccessOnAttemptK ==
    \A n \in Nodes : \A k \in 1 .. MaxUnits :
        /\ st[n][k] = "ok" => (att[n][k] = fails[n][k] + 1 /\ att[n][k] \in 1 .. 3)
        /\ fails[n][k] < 3 => st[n][k] # "failed"

C4_Witness ==
    \E n \in Nodes : \E k \in 1 .. MaxUnits :
        st[n][k] = "ok" /\ fails[n][k] = 2 /\ att[n][k] = 3

SomeFailed == \E n \in Nodes : \E k \in Args(n) : st[n][k] = "failed"

\* C5: once a unit is permanently failed, no other unit is cancelled, and a
\* sub-dispatcher that has ended (on that node or another) has started every
\* one of its units and seen each reach success or permanent failure
C5_FailureIsolated ==
    SomeFailed =>
        \A n \in Nodes : \A k \in Args(n) :
            /\ st[n][k] \in {"queued", "running", "retry", "ok", "failed"}
            /\ sub[n] = "done" => (Terminal(n, k) /\ att[n][k] >= 1)

C5_Witness ==
    /\ pc = "exit"
    /\ \E n \in Nodes : \E k, j \in Args(n) :
          /\ st[n][k] = "failed"
          /\ j > k /\ st[n][j] = "ok"
          /\ \E m \in Nodes \ {n} : \A l \in 1 .. MaxUnits : st[m][l] = "ok"

\* C6: if some unit ends permanently failed, the exit status of the script
\* is non-zero
C6_ExitReflectsFailure ==
    (pc = "exit" /\ SomeFailed) => exitStatus # 0

\* C7: if some sub-dispatcher could not be started, the exit status of the
\* script is non-zero
C7_ExitOnStartFailure ==
    (pc = "exit" /\ \E n \in Nodes : sub[n] = "nostart") => exitStatus # 0

\* C8: the script has ended only if every sub-dispatcher it launched has
\* terminated and none of its work units is running
C8_JoinOnAll ==
    pc = "exit" =>
        \A n \in Nodes : sub[n] \notin {"spawned", "running"} /\ Running(n) = {}

C8_Witness ==
    /\ pc = "exit"
    /\ sub[0] = "done" /\ sub[1] = "done"

\* C9: on every node at most N / M work units run at a time, N the 64 slots
\* of the job and M the node count
C9_PerNodeConcurrency ==
    \A n \in Nodes : Cardinality(Running(n)) <= TotalCpus \div NNODES

\* C10: no attempt (first or retry) is started on a node whose observed load
\* exceeds the limit, and a change of load leaves the running units alone
C10_LoadAdmission ==
    [][\A n \in Nodes :
          /\ (\E k \in 1 .. MaxUnits : att'[n][k] # att[n][k])
                => ~(load[n] > LoadLimit)
          /\ load'[n] # load[n] => st'[n] = st[n]]_vars

C10_Witness ==
    \E n \in Nodes :
        /\ load[n] > LoadLimit
        /\ \E k, j \in Args(n) : st[n][k] = "running" /\ st[n][j] = "retry"

\* C11: for a node count other than 2 the job does not start: no range is
\* chosen for any node, no sub-dispatcher is launched and no work unit is
\* attempted
C11_FatalForOtherNodeCounts ==
    NNODES # 2 =>
        \A n \in Nodes :
            /\ PARAMF[n] = NoParam
            /\ sub[n] = "none"
            /\ \A k \in 1 .. MaxUnits : att[n][k] = 0

\* values of the declared range whose argument is among those followed
Tracked == {v \in FullRange : ((v - 1) % NCPUS) + 1 <= MaxUnits}

ValueTerminal(v) ==
    \E n \in Dispatched : \E k \in Args(n) : Value(n, k) = v /\ Terminal(n, k)

\* C12: when the script has ended and every sub-dispatcher it launched ran
\* to its end, every value of the declared range has reached success or
\* permanent failure
C12_AllValuesTerminal ==
    (pc = "exit" /\ \A n \in Dispatched : sub[n] = "done") =>
        \A v \in Tracked : ValueTerminal(v)

\* C14: sub-dispatcher n is launched at slot NCPUS*n; distinct iterations
\* target distinct slots on distinct hosts, the targeted slots are all
\* within 0..63 exactly when NNODES <= 2, and only an iteration whose slot
\* is within 0..63 gets a running sub-dispatcher
C14_SlotPerNode ==
    /\ \A n, m \in 0 .. (NNODES - 1) :
          n # m => (Slot(n) # Slot(m) /\ HostOf(Slot(n)) # HostOf(Slot(m)))
    /\ (\A n \in 0 .. (NNODES - 1) : Slot(n) \in 0 .. 63) <=> NNODES <= 2
    /\ \A n \in Dispatched :
          /\ sub[n] \in {"spawned", "running", "done"} => Slot(n) \in 0 .. 63
          /\ Slot(n) \notin 0 .. 63 => sub[n] = "nostart"

C14_Witness ==
    /\ NNODES = 3
    /\ sub[0] = "running" /\ sub[1] = "running" /\ sub[2] = "nostart"

\* C13: on a node, a start that follows another start of the same parallel
\* comes at least 5 time units after it, and time on a node never runs
\* backwards
C13_StartsSpaced ==
    [][\A n \in Nodes :
          /\ clock'[n] >= clock[n]
          /\ ((\E k \in 1 .. MaxUnits : att'[n][k] # att[n][k]) /\ lastStart[n] >= 0)
                => (lastStart'[n] - lastStart[n] >= 5 /\ lastStart'[n] = clock'[n])]_vars

C13_Witness ==
    \E n \in Nodes : \E k, j \in Args(n) :
        /\ k # j
        /\ st[n][k] = "running" /\ st[n][j] = "running"
        /\ lastStart[n] > 5
        /\ clock[n] > lastStart[n]

\* output files that hold a time step
Held == {out[t] : t \in Stamps} \ {NoFile}

\* time steps that were renamed and are in no output file any more
Lost == moved \ Held

\* C15: between inputs and at the end no split_* file is left; if every
\* timestamp read was non-empty and new, every renamed time step is in
\* exactly one output file and none was overwritten; a timestamp read twice
\* (the empty one included) loses an earlier time step; and each rename
\* leaves the renamed step under its name, replacing what was there
C15_SplitOutputs ==
    /\ [](/\ spc \in {"next", "done"} => \A k \in DOMAIN splitDir : splitDir[k] = NoFile
          /\ (~dup /\ 0 \notin seen) =>
                /\ Lost = {}
                /\ \A id \in moved : Cardinality({t \in Stamps : out[t] = id}) = 1
          /\ dup => Lost # {})
    /\ [][moved' # moved =>
            \E t \in Stamps :
                /\ out'[t] \in moved' \ moved
                /\ \A u \in Stamps \ {t} : out'[u] = out[u]
                /\ (out[t] # NoFile => out[t] \in moved' \ Held')]_vars

C15_Witness ==
    /\ spc = "done"
    /\ sfile = 2
    /\ ~dup /\ 0 \notin seen
    /\ Cardinality(moved) = 3
    /\ Cardinality(Held) = 3

====
